---- MODULE Spec2Model ----
(***************************************************************************)
(* dt-toolbox: the execution-lifecycle monitor (src/dt_toolbox/monitor.py) *)
(* with the collaborators it drives: the root logger set up by             *)
(* handlers.setup_logging, the notifier list of notifier.create_notifiers  *)
(* and the storage backend's upload_file.                                  *)
(*                                                                         *)
(* One behaviour of the model is one Python process.  The script (the main *)
(* thread) calls init_monitoring, calls functions decorated with @monitor  *)
(* and logs through the root logger; then it terminates, either by an      *)
(* exception nobody catches or by returning.  The interpreter then runs    *)
(* sys.excepthook (only for an uncaught exception, on the main thread,     *)
(* before finalization) and afterwards the atexit callbacks, one at a      *)
(* time, once per registration.  A hook therefore runs to its end before   *)
(* the next one starts, and each hook is one step of the model.            *)
(*                                                                         *)
(* The settings are those of the process: every init_monitoring call of a  *)
(* behaviour resolves the same MonitorConfig, drawn in Init.  The terminal *)
(* hooks only ever act on the current monitor, _monitor_state.             *)
(*                                                                         *)
(* Spec explores the notification and storage settings under the default   *)
(* log format and redaction; SpecLogging explores the log format and the   *)
(* redaction switch under the default notification and storage settings.   *)
(* SpecIdentity lets the script name its runs (run_id, trace_id) and       *)
(* SpecDisabled switches the notifications off.  SpecThreads has threads   *)
(* of the script log concurrently through the handlers of the root logger. *)
(* SpecRedact, SpecConfig and SpecBuild apply Redactor.redact /            *)
(* redact_dict, config.merge_configs and config.build_config to inputs     *)
(* drawn from bounded sets.                                                *)
(***************************************************************************)
EXTENDS Integers, Sequences, FiniteSets, TLC

\* ---------------------------------------------------------------- bounds
\* init_monitoring calls that build a MonitorState, per process
MaxInits == 2
\* records the script itself logs, per process
MaxLogs == 2
\* formatted length of one log record, in bytes (every record the same)
RecBytes == 512
\* length of a text handed to Redactor.redact
MaxLen == 3
\* nesting depth of the values of a dictionary handed to Redactor.redact_dict
MaxDepth == 2
\* times the redactor is applied in a row, each time to its last output
MaxApply == 2

\* ------------------------------------------------------------- constants
\* get_file_size_kb: os.path.getsize(file_path) / 1024
KB == 1024

\* Python's None
NoneVal == "None"

\* logging's numeric levels (types.LogLevel names them)
LevelNo == [DEBUG |-> 10, INFO |-> 20, WARNING |-> 30, ERROR |-> 40, CRITICAL |-> 50]

\* ------------------------------------------------------- input domains
\* upload_threshold_kb values explored (types.StorageConfig, default 200)
Thresholds == {1}
\* MonitorConfig as build_config returns it: the fields the monitor reads.
\* smtp stands for "smtp_host and smtp_user are set", webhook for
\* "webhook_url is set", notification_enabled for notification.enabled.
\* log_format, redaction.enabled and notification.enabled have their
\* defaults here; LoggingConfigs and DisabledConfigs vary them.
Configs ==
    [ notification_enabled : {TRUE},
      notify_on_success : BOOLEAN,
      notify_on_failure : BOOLEAN,
      smtp : BOOLEAN,
      webhook : BOOLEAN,
      storage_enabled : BOOLEAN,
      upload_threshold_kb : Thresholds,
      log_level : {"INFO", "WARNING"},
      log_format : {"json"},
      redaction_enabled : {TRUE} ]

\* MonitorConfig.log_format: "json", or anything else for the text formatter
LogFormats == {"json", "text"}

\* types.MonitorConfig with its defaults
DefaultConfig ==
    [ notification_enabled |-> TRUE, notify_on_success |-> FALSE, notify_on_failure |-> TRUE, smtp |-> FALSE,
      webhook |-> FALSE, storage_enabled |-> FALSE,
      upload_threshold_kb |-> CHOOSE t \in Thresholds : TRUE, log_level |-> "INFO",
      log_format |-> "json", redaction_enabled |-> TRUE ]

\* levels the script logs at
UserLevels == {"DEBUG", "INFO", "WARNING"}
\* what the script logs: a harmless message, or one with a password in it
PlainMessage == << "user message" >>
SecretMessage == << "User", "password=secret123" >>
UserMessages == { PlainMessage, SecretMessage }
\* message of the exception a decorated function raises
FuncExcs == {"x"}
\* message of an exception the script raises outside any decorated function
ScriptExcs == {"y"}
\* return values of a decorated function
FuncValues == {"v"}
\* what StorageBackend.upload_file does: returns a URL, returns None, raises
UploadOutcomes == {"url", "none", "raise"}
\* what Notifier.send does: returns True, returns False, raises
SendOutcomes == {"ok", "false", "raise"}
\* where init_monitoring stops: "ok" runs to the end, the others raise in
\* build_config (or in binding the call's arguments), get_log_file_path,
\* MonitorState(...) or setup_logging
InitStages == {"ok", "config", "logdir", "components", "logging"}
\* what the environment (file system, backend libraries) lets a call with
\* valid settings do
EnvStages == InitStages \ {"config"}

\* a required argument the call does not pass
Missing == "<missing>"
\* strings pydantic's EmailStr accepts, among those the script passes
Emails == {"owner@example.com", "ops@example.com"}
\* types.LogLevel
LogLevels == {"DEBUG", "INFO", "WARNING", "ERROR", "CRITICAL"}
\* types.StorageBackend
StorageBackends == {"s3", "gcs", "minio", "local"}

\* the arguments of an init_monitoring call that validation looks at, all
\* valid; log_level, run_id and trace_id are not passed (None): the level
\* comes from the lower layers and the identifiers are generated
ValidArgs ==
    [ app_name |-> "app", owner |-> "owner@example.com",
      recipients |-> << "ops@example.com" >>,
      log_level |-> NoneVal, storage_backend |-> "local",
      run_id |-> NoneVal, trace_id |-> NoneVal ]
\* the calls the script makes: the valid one, and one per setting that the
\* call leaves out or gets wrong
InitArgs ==
    { ValidArgs,
      [ValidArgs EXCEPT !.owner = Missing],
      [ValidArgs EXCEPT !.app_name = Missing],
      [ValidArgs EXCEPT !.owner = "not-an-email"],
      [ValidArgs EXCEPT !.recipients = << "ops@example.com", "invalid-email" >>],
      [ValidArgs EXCEPT !.log_level = "INVALID_LEVEL"],
      [ValidArgs EXCEPT !.storage_backend = "invalid_backend"] }

\* ------------------------------------------------------------- redaction
\* A text is a sequence of symbols: single characters where the Redactor is
\* examined on its own, whole phrases in the messages of log records.
Symbols == {"a", "A", "b", "*"}
\* re.IGNORECASE: the symbol folded to lower case
Lower(c) == IF c = "A" THEN "a" ELSE c
\* the regular expression class \w
IsWord(c) == c # "*"

Texts == UNION { [1..n -> Symbols] : n \in 0..MaxLen }

\* A configured pattern: the literal lit, or \b lit \b when wb is set (as the
\* SSN and credit card patterns of types.RedactionConfig are enclosed in \b)
Patterns == [lit : {<< "a" >>, << "a", "b" >>}, wb : BOOLEAN]
PatternLists == { << p >> : p \in Patterns } \cup { << p, q >> : p \in Patterns, q \in Patterns }
\* RedactionConfig.replacement
Replacements == { << "*" >>, << "*", "a" >> }
\* types.RedactionConfig
Redactors == [enabled : BOOLEAN, patterns : PatternLists, replacement : Replacements]

\* \b at the gap before position j of t: a word character on exactly one side
WordAt(t, j) == j \in DOMAIN t /\ IsWord(t[j])
Boundary(t, j) == WordAt(t, j - 1) # WordAt(t, j)

\* the compiled pattern p matches t at position i
MatchAt(p, t, i) ==
    LET n == Len(p.lit)
    IN  /\ i + n - 1 <= Len(t)
        /\ \A k \in 1..n : Lower(t[i + k - 1]) = Lower(p.lit[k])
        /\ p.wb => (Boundary(t, i) /\ Boundary(t, i + n))

RECURSIVE SubFrom(_, _, _, _)
\* pattern.sub(replacement, t) from position i on: the leftmost matches, not
\* overlapping, each replaced; the assertions look at t itself
SubFrom(p, repl, t, i) ==
    IF i > Len(t) THEN << >>
    ELSE IF MatchAt(p, t, i) THEN repl \o SubFrom(p, repl, t, i + Len(p.lit))
    ELSE << t[i] >> \o SubFrom(p, repl, t, i + 1)

RECURSIVE SubFirstFrom(_, _, _, _)
SubFirstFrom(p, repl, t, i) ==
    IF i > Len(t) THEN << >>
    ELSE IF MatchAt(p, t, i) THEN repl \o SubSeq(t, i + Len(p.lit), Len(t))
    ELSE << t[i] >> \o SubFirstFrom(p, repl, t, i + 1)

\* pattern.sub(replacement, result)
\* (fault variant: only the first match is replaced, as with count=1)
sub_first_only(p, repl, t) == SubFirstFrom(p, repl, t, 1)
sub(p, repl, t) == SubFrom(p, repl, t, 1)

RECURSIVE ApplyPatterns(_, _, _)
\* redact: for pattern in self.patterns: result = pattern.sub(...)
ApplyPatterns(ps, repl, t) ==
    IF ps = << >> THEN t
    ELSE ApplyPatterns(Tail(ps), repl, sub(Head(ps), repl, t))

\* redact, redact_dict: if not self.config.enabled
\* (fault variant: the switch is ignored)
Disabled_never(cfg) == FALSE
Disabled(cfg) == ~cfg.enabled

\* Redactor.redact
redact(cfg, t) == IF Disabled(cfg) THEN t ELSE ApplyPatterns(cfg.patterns, cfg.replacement, t)

\* Python values as redact_dict tells them apart: str, dict, list, anything else
Str(s) == [t |-> "str", s |-> s]
Other == [t |-> "int", n |-> 7]
List(items) == [t |-> "list", items |-> items]
Dict(entries) == [t |-> "dict", entries |-> entries]
Item(key, value) == [key |-> key, value |-> value]

LeafValues == { Str(<< "a" >>), Str(<< "b" >>), Other }
RECURSIVE Values(_)
\* values nested at most d deep: leaves, lists of one or two items, dicts
Values(d) ==
    IF d = 0 THEN LeafValues
    ELSE LET S == Values(d - 1)
         IN  LeafValues \cup { List(<< x >>) : x \in S }
                        \cup { List(<< x, y >>) : x \in S, y \in LeafValues }
                        \cup { Dict(<< Item("k", x) >>) : x \in S }
\* the dictionaries handed to redact_dict
Dicts == { Dict(<< Item("k", x), Item("n", Other) >>) : x \in Values(MaxDepth) }

RECURSIVE redact_dict(_, _)
\* redact_dict: the expression applied to each item of a list value
redact_item(cfg, item) ==
    IF item.t = "str" THEN Str(redact(cfg, item.s))
    ELSE IF item.t = "dict" THEN redact_dict(cfg, item)
    ELSE item
\* redact_dict: the branches on the type of a value
redact_value(cfg, v) ==
    IF v.t = "str" THEN Str(redact(cfg, v.s))
    ELSE IF v.t = "dict" THEN redact_dict(cfg, v)
    ELSE IF v.t = "list" THEN List([i \in DOMAIN v.items |-> redact_item(cfg, v.items[i])])
    ELSE v
\* Redactor.redact_dict
redact_dict(cfg, d) ==
    IF Disabled(cfg) THEN d
    ELSE Dict([i \in DOMAIN d.entries |->
                 Item(d.entries[i].key, redact_value(cfg, d.entries[i].value))])

\* --------------------------------------------------------- configuration
\* A configuration dictionary maps keys to values; a value is a nested
\* dictionary (a section) or anything else.  Each layer's values are tagged
\* with the layer they come from.
LayerNames == << "file", "env", "args" >>
\* a top-level setting and a section, with two keys of the section
ScalarKey == "log_level"
SectionKey == "notification"
NestedKeys == {"smtp_host", "smtp_port"}

Scalar(v) == [dict |-> FALSE, v |-> v]
Section(items) == [dict |-> TRUE, items |-> items]

\* the sections a layer can hold: any subset of the nested keys
Sections(l) == { Section([k \in K |-> l]) : K \in SUBSET NestedKeys }

\* the dictionaries with the given values allowed at the two keys
DictsOver(scalars, sections) ==
    { << >> }
    \cup { (ScalarKey :> x) : x \in scalars }
    \cup { (SectionKey :> y) : y \in sections }
    \cup { (ScalarKey :> x) @@ (SectionKey :> y) : x \in scalars, y \in sections }

\* load_config_from_file returns whatever the YAML file holds: either kind
\* of value at either key
FileLayers ==
    LET any == {Scalar("file")} \cup Sections("file") IN DictsOver(any, any)
\* load_config_from_env and the args_config of build_config hold plain
\* values at top-level settings and dictionaries at the sections
CodeLayers(l) == DictsOver({Scalar(l)}, Sections(l))

\* {**a, **b}
Overlay(a, b) == [k \in DOMAIN a \cup DOMAIN b |-> IF k \in DOMAIN b THEN b[k] ELSE a[k]]

\* merge_configs: the body of the loop over one config
\* (fault variant: a dictionary value replaces the one below it whole)
MergeInto_replace(result, cfg) ==
    [k \in DOMAIN result \cup DOMAIN cfg |-> IF k \in DOMAIN cfg THEN cfg[k] ELSE result[k]]
MergeInto(result, cfg) ==
    [k \in DOMAIN result \cup DOMAIN cfg |->
        IF k \in DOMAIN cfg
        THEN IF cfg[k].dict /\ k \in DOMAIN result /\ result[k].dict
             THEN Section(Overlay(result[k].items, cfg[k].items))
             ELSE cfg[k]
        ELSE result[k]]

RECURSIVE MergeFrom(_, _)
MergeFrom(result, configs) ==
    IF configs = << >> THEN result
    ELSE MergeFrom(MergeInto(result, Head(configs)), Tail(configs))

\* config.merge_configs(*configs)
merge_configs(configs) == MergeFrom(<< >>, configs)

VARIABLES
    layers,         \* the configuration layers handed to merge_configs: file, env, args
    merged,         \* << >>, or << the dictionary merge_configs returned >>
    passed,         \* the settings an init_monitoring call passes explicitly
    effective,      \* << >>, or << the MonitorConfig build_config returned >>
    redactor,       \* the RedactionConfig of the Redactor under examination
    rin,            \* what it is given: a text or a dictionary
    rout,           \* its outputs so far, each application taking the last output
    config,         \* the MonitorConfig every init_monitoring call of this process resolves
    pc,             \* "main" | "unwinding" | "atexit" | "exited"
    pending,        \* message of the uncaught exception being unwound, or NoneVal
    monitors,       \* every MonitorState built so far, in order of construction
    monitor_state,  \* _monitor_state: index into monitors, 0 for None
    excepthook,     \* sys.excepthook: "default" | "handler" (_exception_handler)
    atexitRegs,     \* number of atexit registrations of _exit_handler
    atexitLeft,     \* registrations still to run during finalization
    rootLevel,      \* level of the root logger
    rootHandlers,   \* the root logger's handlers, in the order they were added
    files,          \* files[i]: records in the log file of monitors[i]
    call,           \* the decorated call that built the current monitor, if any
    creates,        \* history: one entry per create_summary call; summary is << >>
                    \* when the call raised instead of returning one
    dispatches,     \* history: one entry per send_notifications call
    escaped,        \* an exception has escaped a terminal hook
    tstate,         \* tstate[t]: where thread t is in its logging calls
    sinkLock,       \* sinkLock[h]: the thread holding the lock of handler h, 0 if free
    sinkOut         \* sinkOut[h]: what the stream of handler h has received, in order

\* the variables of the pure functions examined on their own
pure == << redactor, rin, rout, layers, merged, passed, effective >>

\* the variables of the threads that log concurrently
thr == << tstate, sinkLock, sinkOut >>

\* the variables of the process's lifecycle
life == << config, pc, pending, monitors, monitor_state, excepthook, atexitRegs,
           atexitLeft, rootLevel, rootHandlers, files, call, creates, dispatches, escaped >>

vars == << pure, thr, life >>

\* handlers.setup_logging: logger.handlers.clear()
ClearHandlers(handlers) == << >>

\* handlers.setup_logging: logger.addHandler(file_handler), then
\* logger.addHandler(console_handler); mon is the MonitorState whose log
\* file the file handler opens, formatter the run_id and trace_id the
\* formatter of both handlers was built with
AddHandlers(handlers, mon, formatter) ==
    handlers \o << [kind |-> "file", mon |-> mon, formatter |-> formatter],
                   [kind |-> "console", mon |-> mon, formatter |-> formatter] >>

\* the log file a logger with these handlers writes to: that of its file
\* handler, 0 if it has none
FileOf(handlers) ==
    LET fhs == SelectSeq(handlers, LAMBDA h : h.kind = "file")
    IN  IF fhs = << >> THEN 0 ELSE fhs[Len(fhs)].mon

rootFile == FileOf(rootHandlers)

\* no build_config call under examination
NoBuild == passed = {} /\ effective = << >>

NoCall == [kind |-> "none", value |-> NoneVal, seen_kind |-> "none", seen_value |-> NoneVal]

\* ------------------------------------------------------------ log files
\* one formatted log line; exc is the message of the exception the record
\* carries through exc_info, NoneVal when it carries none; run_id and
\* trace_id are those the formatter writes into the line, NoneVal when it
\* writes none
\* a record of the library's own loggers (logging.getLogger(__name__), which
\* hand it to the root logger); logger is the monitor whose init_monitoring
\* call returned the logger used, 0 when none was
Record(src, text) ==
    [src |-> src, text |-> << text >>, exc |-> NoneVal, bytes |-> RecBytes, logger |-> 0,
     run_id |-> NoneVal, trace_id |-> NoneVal]
\* a record the script logs through the logger that init_monitoring returned
\* for monitor via, or through logging.getLogger() when via is 0
UserRecord(message, via) ==
    [src |-> "user", text |-> message, exc |-> NoneVal, bytes |-> RecBytes, logger |-> via,
     run_id |-> NoneVal, trace_id |-> NoneVal]

\* the Redactor of a monitor: MonitorState.redactor = Redactor(config.redaction),
\* the password pattern standing for the default patterns
LogRedaction(cfg) ==
    [ enabled |-> cfg.redaction_enabled,
      patterns |-> << [lit |-> << "password=secret123" >>, wb |-> FALSE] >>,
      replacement |-> << "***REDACTED***" >> ]

\* the formatter setup_logging gives both handlers: JSONFormatter, which
\* passes the record's fields through redactor.redact_dict, when log_format
\* is "json"; otherwise a plain logging.Formatter
Format(cfg, rec) ==
    IF cfg.log_format = "json"
    THEN [rec EXCEPT !.text = redact(LogRedaction(cfg), @)]
    ELSE rec

\* the formatter of the file handler among handlers
FormatterOf(handlers) ==
    LET fhs == SelectSeq(handlers, LAMBDA h : h.kind = "file")
    IN  fhs[Len(fhs)].formatter

\* an identifier of sixteen digits, which the credit card pattern of the
\* default patterns, \b\d{4}[- ]?\d{4}[- ]?\d{4}[- ]?\d{4}\b, matches
CardLike == "1730752543123456"

\* the Redactor of a monitor as it acts on an identifier, the credit card
\* pattern standing for the default patterns
FieldRedaction(cfg) ==
    [ enabled |-> cfg.redaction_enabled,
      patterns |-> << [lit |-> << CardLike >>, wb |-> FALSE] >>,
      replacement |-> << "***REDACTED***" >> ]

\* utils.generate_run_id, utils.generate_trace_id: a fresh identifier at
\* every call, k being the number of the call
generate_run_id(k) == "run-" \o ToString(k)
generate_trace_id(k) == "trace-" \o ToString(k)

\* the run_id and trace_id a script may pass to init_monitoring: none, an
\* empty one, a name, and for run_id a number of sixteen digits
RunIds == {NoneVal, "", "nightly", CardLike}
TraceIds == {NoneVal, "trace-x"}

\* every identifier a formatter can be built with
Identifiers ==
    RunIds \cup TraceIds
        \cup { generate_run_id(k) : k \in 1..MaxInits }
        \cup { generate_trace_id(k) : k \in 1..MaxInits }

\* redactor.redact on each of them, under either redaction switch
RedactedIdentifiers ==
    [ enabled \in BOOLEAN |->
        [ value \in Identifiers |->
            redact(FieldRedaction([redaction_enabled |-> enabled]), << value >>)[1] ] ]

\* redactor.redact_dict on a field of log_data that holds an identifier
RedactField(cfg, value) == RedactedIdentifiers[cfg.redaction_enabled][value]

\* JSONFormatter.format: log_data["run_id"] = self.run_id, log_data["trace_id"]
\* = self.trace_id, and log_data then goes through redactor.redact_dict with
\* all its fields; the plain logging.Formatter writes neither identifier
Stamp(cfg, formatter, line) ==
    IF cfg.log_format = "json"
    THEN [line EXCEPT !.run_id = RedactField(cfg, formatter.run_id),
                      !.trace_id = RedactField(cfg, formatter.trace_id)]
    ELSE line

RECURSIVE FileBytes(_)
\* os.path.getsize of a log file
FileBytes(f) == IF f = << >> THEN 0 ELSE Head(f).bytes + FileBytes(Tail(f))

\* a logging call: what is logged, and at which level
Entry(level, rec) == [level |-> level, rec |-> rec]

\* Logger.callHandlers through the root logger: the record is written when
\* its level passes the logger's level lvl and a file handler is attached
\* (the file handler itself is set to DEBUG and passes everything)
EmitWith(fs, handlers, lvl, entry) ==
    IF FileOf(handlers) # 0 /\ LevelNo[entry.level] >= LevelNo[lvl]
    THEN [fs EXCEPT ![FileOf(handlers)] =
            Append(@, Stamp(config, FormatterOf(handlers), Format(config, entry.rec)))]
    ELSE fs

\* the same through the handlers the root logger has now, target being the
\* log file of its file handler
EmitTo(fs, target, lvl, entry) ==
    IF target # 0 THEN EmitWith(fs, rootHandlers, lvl, entry) ELSE fs

RECURSIVE EmitAll(_, _, _, _)
EmitAll(fs, target, lvl, entries) ==
    IF entries = << >> THEN fs
    ELSE EmitAll(EmitTo(fs, target, lvl, Head(entries)), target, lvl, Tail(entries))

RECURSIVE UserRecords(_)
\* number of records the script itself has written, over all log files
UserRecords(fs) ==
    IF fs = << >> THEN 0
    ELSE Len(SelectSeq(Head(fs), LAMBDA r : r.src = "user")) + UserRecords(Tail(fs))

\* no pure function is under examination
InitPure ==
    /\ redactor = [enabled |-> TRUE, patterns |-> << >>, replacement |-> << >>]
    /\ rin = [kind |-> "none"]
    /\ rout = << >>
    /\ layers = << >>
    /\ merged = << >>
    /\ NoBuild

\* the process before the script's first statement
InitProcess ==
    /\ pc = "main"
    /\ pending = NoneVal
    /\ monitors = << >>
    /\ monitor_state = 0
    /\ excepthook = "default"
    /\ atexitRegs = 0
    /\ atexitLeft = 0
    /\ rootLevel = "WARNING"
    /\ rootHandlers = << >>
    /\ files = << >>
    /\ call = NoCall
    /\ creates = << >>
    /\ dispatches = << >>
    /\ escaped = FALSE

\* no thread but the main thread
NoThreads ==
    /\ tstate = << >>
    /\ sinkLock = << >>
    /\ sinkOut = << >>

Init ==
    /\ config \in Configs
    /\ InitProcess
    /\ InitPure
    /\ NoThreads

\* --------------------------------------------------------- collaborators
\* notifier.create_notifiers: SMTP first, then the webhook
create_notifiers(cfg) ==
    (IF cfg.smtp THEN << "smtp" >> ELSE << >>) \o (IF cfg.webhook THEN << "webhook" >> ELSE << >>)

\* utils.get_file_size_kb: the size in bytes divided by 1024, as the exact
\* quotient num/den (Python's float division; no rounding below 2^53 bytes)
get_file_size_kb(bytes) == [num |-> bytes, den |-> KB]

\* create_summary: file_size_kb > self.config.storage.upload_threshold_kb
\* (fault variant: >= for >)
ExceedsThreshold_inclusive(size, threshold_kb) == size.num >= threshold_kb * size.den
ExceedsThreshold(size, threshold_kb) == size.num > threshold_kb * size.den

\* create_summary: the try/except around storage_backend.upload_file.
\* A raised Exception is logged and log_url stays None.
\* (fault variant: no try/except, the backend's exception leaves create_summary)
TryUpload_unguarded(up) ==
    [ log_url |-> IF up = "url" THEN "url" ELSE NoneVal,
      failed |-> up # "url",
      escaped |-> up = "raise" ]
TryUpload(up) ==
    [ log_url |-> IF up = "url" THEN "url" ELSE NoneVal,
      failed |-> up # "url",
      escaped |-> FALSE ]

\* MonitorState.create_summary of the MonitorState self, on the log file
\* contents f
create_summary(f, self, exit_code, error_message, stacktrace, up) ==
    LET bytes == FileBytes(f)
        log_file == self.log_file
        due == config.storage_enabled /\ log_file # 0
               /\ ExceedsThreshold(get_file_size_kb(bytes), config.upload_threshold_kb)
        res == IF due THEN TryUpload(up)
               ELSE [log_url |-> NoneVal, failed |-> FALSE, escaped |-> FALSE]
    IN  [ escaped |-> res.escaped,
          bytes |-> bytes,
          uploads |-> IF due THEN 1 ELSE 0,
          upload_failed |-> res.failed,
          summary |-> [ run_id |-> self.run_id,
                        trace_id |-> self.trace_id,
                        exit_code |-> exit_code,
                        success |-> exit_code = 0 /\ error_message = NoneVal,
                        error_message |-> error_message,
                        stacktrace |-> stacktrace,
                        log_file |-> log_file,
                        log_url |-> res.log_url ] ]

\* send_notifications: the routing policy
\* (fault variant: notify_on_failure decides for every outcome)
ShouldNotify_failure_flag_only(summary) == config.notify_on_failure
ShouldNotify(summary) ==
    IF summary.success THEN config.notify_on_success ELSE config.notify_on_failure

RECURSIVE FirstRaise(_, _)
\* index of the first of outs[1..n] that is "raise", 0 if there is none
FirstRaise(outs, n) ==
    IF n = 0 THEN 0
    ELSE LET k == FirstRaise(outs, n - 1)
         IN  IF k # 0 THEN k ELSE IF outs[n] = "raise" THEN n ELSE 0

\* send_notifications: the loop over self.notifiers, each send in its own
\* try/except Exception
\* (fault variant: no try/except, the loop ends at the first send that raises)
SendAll_unguarded(notifiers, outs) ==
    LET k == FirstRaise(outs, Len(notifiers))
        n == IF k = 0 THEN Len(notifiers) ELSE k
    IN  [ attempts |-> [i \in 1..n |-> [channel |-> notifiers[i], outcome |-> outs[i]]],
          escaped |-> k # 0 ]
SendAll(notifiers, outs) ==
    [ attempts |-> [i \in 1..Len(notifiers) |-> [channel |-> notifiers[i], outcome |-> outs[i]]],
      escaped |-> FALSE ]

\* MonitorState.send_notifications
send_notifications(summary, outs) ==
    IF ShouldNotify(summary)
    THEN SendAll(create_notifiers(config), outs)
    ELSE [attempts |-> << >>, escaped |-> FALSE]

\* the records the dispatch leaves in the log: the notifier's info line on
\* success, an error line when send returned False or raised, and the
\* monitor's debug line when the routing policy skips the dispatch
DispatchRecords(summary, attempts) ==
    IF ~ShouldNotify(summary)
    THEN << Entry("DEBUG", Record("monitor", "Skipping notification")) >>
    ELSE [i \in DOMAIN attempts |->
            IF attempts[i].outcome = "ok"
            THEN Entry("INFO", Record("monitor", "notification sent"))
            ELSE Entry("ERROR", Record("monitor", "Failed to send notification"))]

\* what a terminal hook does to the world outside, in the order of its
\* statements: create_summary uploads the log file, then builds the summary
\* and stores it in self.summary; back in the hook, send_notifications sends
\* through one notifier after the other
\* (fault variant: the notifications go out before create_summary runs)
Effects_send_first(uploads, stored, attempts) ==
    [i \in DOMAIN attempts |-> "send"]
        \o (IF uploads = 1 THEN << "upload" >> ELSE << >>)
        \o (IF stored THEN << "store" >> ELSE << >>)

Effects(uploads, stored, attempts) ==
    (IF uploads = 1 THEN << "upload" >> ELSE << >>)
        \o (IF stored THEN << "store" >> ELSE << >>)
        \o [i \in DOMAIN attempts |-> "send"]

\* create_summary followed by send_notifications on the current monitor, as
\* both terminal hooks run them; hook names the calling hook and fs is the
\* log files when create_summary starts
Finalize(hook, fs, exit_code, error_message, stacktrace, up, outs) ==
    LET m == monitor_state
        cs == create_summary(fs[m], monitors[m], exit_code, error_message, stacktrace, up)
        fs1 == IF cs.upload_failed
               THEN EmitTo(fs, rootFile, rootLevel, Entry("ERROR", Record("monitor", "Failed to upload log file")))
               ELSE fs
        sn == send_notifications(cs.summary, outs)
        made == [ mon |-> m, hook |-> hook, bytes |-> cs.bytes, uploads |-> cs.uploads,
                  upload |-> IF cs.uploads = 1 THEN up ELSE NoneVal,
                  summary |-> IF cs.escaped THEN << >> ELSE << cs.summary >>,
                  order |-> Effects(cs.uploads, ~cs.escaped,
                                    IF cs.escaped THEN << >> ELSE sn.attempts) ]
    IN  IF cs.escaped
        THEN [ monitors |-> monitors, files |-> fs1, creates |-> Append(creates, made),
               dispatches |-> dispatches, escaped |-> TRUE ]
        ELSE [ monitors |-> [monitors EXCEPT ![m].summary = << cs.summary >>],
               files |-> EmitAll(fs1, rootFile, rootLevel, DispatchRecords(cs.summary, sn.attempts)),
               creates |-> Append(creates, made),
               dispatches |-> Append(dispatches, [ mon |-> m, summary |-> cs.summary,
                                                   attempts |-> sn.attempts ]),
               escaped |-> escaped \/ sn.escaped ]

\* ---------------------------------------------------------------- script
\* init_monitoring(app_name, owner, ...) cannot be called without its two
\* positional arguments, and build_config ends in MonitorConfig(**merged),
\* where pydantic validates owner and the recipients as e-mail addresses,
\* log_level against LogLevel and storage.backend against StorageBackend
\* (fault variant: owner is not validated)
build_config_raises_owner_unchecked(args) ==
    \/ args.app_name = Missing
    \/ args.owner = Missing
    \/ \E i \in DOMAIN args.recipients : args.recipients[i] \notin Emails
    \/ args.log_level # NoneVal /\ args.log_level \notin LogLevels
    \/ args.storage_backend \notin StorageBackends
build_config_raises(args) ==
    \/ args.app_name = Missing
    \/ args.owner = Missing
    \/ args.owner \notin Emails
    \/ \E i \in DOMAIN args.recipients : args.recipients[i] \notin Emails
    \/ args.log_level # NoneVal /\ args.log_level \notin LogLevels
    \/ args.storage_backend \notin StorageBackends

\* the step at which a call with these arguments stops, env being what the
\* environment allows
StageOf(args, env) == IF build_config_raises(args) THEN "config" ELSE env

\* the init_monitoring calls of the script, each with what the environment
\* lets it do (which only matters once the settings are accepted)
InitCalls ==
    { c \in [args : InitArgs, env : EnvStages] :
        build_config_raises(c.args) => c.env = "ok" }

\* init_monitoring: if not config.run_id: config.run_id = generate_run_id(),
\* and the same for trace_id; None and the empty string count as not given
ResolveId(given, fresh) == IF given \in {NoneVal, ""} THEN fresh ELSE given

\* utils.get_log_file_path: Path(log_dir) / app_name / f"{run_id}.log"
get_log_file_path(app_name, log_dir, run_id) == << log_dir, app_name, run_id \o ".log" >>

\* message of the exception init_monitoring raises at a stage
ConfigError == "invalid settings"
InitError(stage) == IF stage = "config" THEN ConfigError ELSE "init_error"

\* init_monitoring: logger.info(f"Monitoring initialized for {app_name} ..")
\* (fault variant: logged as a warning)
InitRecord_warning == Entry("WARNING", Record("monitor", "Monitoring initialized"))

InitRecord == Entry("INFO", Record("monitor", "Monitoring initialized"))

\* init_monitoring up to the step named by stage, where it raises (or, for
\* "ok", returns).  _monitor_state is assigned before setup_logging, which
\* sets the root level and clears the root handlers before it opens the file;
\* the hooks are installed last.
init_monitoring(args, stage) ==
    LET new == Len(monitors) + 1
        built == stage \in {"ok", "logging"}
        run_id == ResolveId(args.run_id, generate_run_id(new))
        trace_id == ResolveId(args.trace_id, generate_trace_id(new))
        handlers == AddHandlers(ClearHandlers(rootHandlers), new,
                                [run_id |-> run_id, trace_id |-> trace_id])
    IN  /\ monitors' = IF built
                       THEN Append(monitors,
                                   [ log_file |-> new, summary |-> << >>,
                                     args |-> args, started |-> stage = "ok",
                                     run_id |-> run_id, trace_id |-> trace_id,
                                     log_path |-> get_log_file_path(args.app_name, "logs", run_id) ])
                       ELSE monitors
        /\ monitor_state' = IF built THEN new ELSE monitor_state
        /\ rootLevel' = IF built THEN config.log_level ELSE rootLevel
        /\ rootHandlers' = IF stage = "ok" THEN handlers
                           ELSE IF stage = "logging" THEN ClearHandlers(rootHandlers)
                           ELSE rootHandlers
        /\ files' = IF stage = "ok"
                    THEN EmitWith(Append(files, << >>), handlers, config.log_level, InitRecord)
                    ELSE IF stage = "logging" THEN Append(files, << >>) ELSE files
        /\ excepthook' = IF stage = "ok" THEN "handler" ELSE excepthook
        /\ atexitRegs' = IF stage = "ok" THEN atexitRegs + 1 ELSE atexitRegs

\* an exception leaves a call of the script: the script catches it and goes
\* on, or it is uncaught and the interpreter starts unwinding
Propagate(caught, message) ==
    /\ pc' = IF caught THEN "main" ELSE "unwinding"
    /\ pending' = IF caught THEN pending ELSE message

\* the script calls init_monitoring itself
InitMonitoring(args, env, caught) ==
    /\ pc = "main"
    /\ Len(monitors) < MaxInits
    /\ LET stage == StageOf(args, env)
       IN  /\ init_monitoring(args, stage)
           /\ IF stage = "ok" THEN UNCHANGED << pc, pending >>
              ELSE Propagate(caught, InitError(stage))
           /\ call' = IF stage \in {"ok", "logging"} THEN NoCall ELSE call
    /\ UNCHANGED << pure, thr, config, atexitLeft, creates, dispatches, escaped >>

FuncOutcomes ==
    [kind : {"return"}, value : FuncValues] \cup [kind : {"raise"}, value : FuncExcs]

\* monitor.decorator.wrapper after init_monitoring: what the caller gets for
\* what func did (return result / except Exception: raise)
\* (fault variant: the exception is swallowed and None returned)
wrapper_swallows(outcome) ==
    IF outcome.kind = "raise" THEN [kind |-> "return", value |-> NoneVal] ELSE outcome
wrapper(outcome) == outcome

\* the script calls a function decorated with @monitor
CallDecorated(args, env, outcome, caught) ==
    /\ pc = "main"
    /\ Len(monitors) < MaxInits
    /\ LET stage == StageOf(args, env)
       IN  /\ init_monitoring(args, stage)
           /\ IF stage = "ok"
              THEN LET seen == wrapper(outcome)
                   IN  /\ call' = [ kind |-> outcome.kind, value |-> outcome.value,
                                    seen_kind |-> seen.kind, seen_value |-> seen.value ]
                       /\ IF seen.kind = "raise"
                          THEN Propagate(caught, seen.value)
                          ELSE UNCHANGED << pc, pending >>
              ELSE /\ call' = IF stage = "logging" THEN NoCall ELSE call
                   /\ Propagate(caught, InitError(stage))
    /\ UNCHANGED << pure, thr, config, atexitLeft, creates, dispatches, escaped >>

\* the logger the latest init_monitoring call returned, 0 if it returned none
CurrentLogger ==
    IF monitor_state # 0 /\ monitors[monitor_state].started THEN monitor_state ELSE 0

\* the script logs one record through a logger it holds.  Every logger that
\* init_monitoring returns is the root logger (setup_logging: logger =
\* logging.getLogger()), so the record goes to the root logger's handlers.
Log(level, message, via) ==
    /\ pc = "main"
    /\ UserRecords(files) < MaxLogs
    /\ via = 0 \/ (via \in DOMAIN monitors /\ monitors[via].started)
    /\ files' = EmitTo(files, rootFile, rootLevel, Entry(level, UserRecord(message, via)))
    /\ UNCHANGED << pure, thr, config, pc, pending, monitors, monitor_state, excepthook, atexitRegs,
                    atexitLeft, rootLevel, rootHandlers, call, creates, dispatches, escaped >>

\* the script raises an exception that nothing catches
RaiseUncaught(message) ==
    /\ pc = "main"
    /\ pc' = "unwinding"
    /\ pending' = message
    /\ UNCHANGED << pure, thr, config, monitors, monitor_state, excepthook, atexitRegs, atexitLeft,
                    rootLevel, rootHandlers, files, call, creates, dispatches, escaped >>

\* the script returns (or calls sys.exit): finalization starts
ExitNormally ==
    /\ pc = "main"
    /\ pc' = "atexit"
    /\ atexitLeft' = atexitRegs
    /\ UNCHANGED << pure, thr, config, pending, monitors, monitor_state, excepthook, atexitRegs,
                    rootLevel, rootHandlers, files, call, creates, dispatches, escaped >>

\* ----------------------------------------------------------- terminal hooks
\* _exit_handler: if _monitor_state.summary is None
\* (fault variant: the guard dropped)
SummaryIsNone_always(m) == TRUE
SummaryIsNone(m) == monitors[m].summary = << >>

\* _exception_handler: error_message = str(exc_value)
\* (fault variant: the message is not passed on)
ErrorMessage_dropped(exc_value) == NoneVal

ErrorMessage(exc_value) == exc_value

\* the interpreter calls sys.excepthook for the uncaught exception, then
\* starts finalization
ExceptHook(up, outs) ==
    /\ pc = "unwinding"
    /\ IF excepthook = "handler" /\ monitor_state # 0
       THEN \* _exception_handler
            LET critical == Entry("CRITICAL", [Record("monitor", "Uncaught exception")
                                                   EXCEPT !.exc = pending])
                fin == Finalize("excepthook", EmitTo(files, rootFile, rootLevel, critical),
                                1, ErrorMessage(pending), "traceback", up, outs)
            IN  /\ monitors' = fin.monitors
                /\ files' = fin.files
                /\ creates' = fin.creates
                /\ dispatches' = fin.dispatches
                /\ escaped' = fin.escaped
       ELSE \* sys.__excepthook__
            UNCHANGED << monitors, files, creates, dispatches, escaped >>
    /\ pc' = "atexit"
    /\ atexitLeft' = atexitRegs
    /\ UNCHANGED << pure, thr, config, pending, monitor_state, excepthook, atexitRegs,
                    rootLevel, rootHandlers, call >>

\* finalization runs one registered atexit callback: _exit_handler
ExitHook(up, outs) ==
    /\ pc = "atexit"
    /\ atexitLeft > 0
    /\ IF monitor_state # 0 /\ SummaryIsNone(monitor_state)
       THEN LET fin == Finalize("atexit", files, 0, NoneVal, NoneVal, up, outs)
            IN  /\ monitors' = fin.monitors
                /\ files' = fin.files
                /\ creates' = fin.creates
                /\ dispatches' = fin.dispatches
                /\ escaped' = fin.escaped
       ELSE UNCHANGED << monitors, files, creates, dispatches, escaped >>
    /\ atexitLeft' = atexitLeft - 1
    /\ UNCHANGED << pure, thr, config, pc, pending, monitor_state, excepthook, atexitRegs,
                    rootLevel, rootHandlers, call >>

\* every atexit callback has run: the process is gone
Finish ==
    /\ pc = "atexit"
    /\ atexitLeft = 0
    /\ pc' = "exited"
    /\ UNCHANGED << pure, thr, config, pending, monitors, monitor_state, excepthook, atexitRegs,
                    atexitLeft, rootLevel, rootHandlers, files, call, creates, dispatches, escaped >>

\* one outcome for the send of each configured notifier
SendPlans == [1..Len(create_notifiers(config)) -> SendOutcomes]

Next ==
    \/ \E c \in InitCalls, caught \in BOOLEAN :
          InitMonitoring(c.args, c.env, caught)
    \/ \E c \in InitCalls, outcome \in FuncOutcomes, caught \in BOOLEAN :
          CallDecorated(c.args, c.env, outcome, caught)
    \/ \E level \in UserLevels : Log(level, PlainMessage, CurrentLogger)
    \/ \E message \in ScriptExcs : RaiseUncaught(message)
    \/ ExitNormally
    \/ \E up \in UploadOutcomes, outs \in SendPlans : ExceptHook(up, outs)
    \/ \E up \in UploadOutcomes, outs \in SendPlans : ExitHook(up, outs)
    \/ Finish

Spec == Init /\ [][Next]_vars

\* ------------------------------------------------ the logging of a process
\* The same process under the default notification and storage settings,
\* with every log format and redaction switch, messages that carry a secret,
\* and the script logging through any logger it was handed.
LoggingConfigs ==
    { [DefaultConfig EXCEPT !.log_format = f, !.redaction_enabled = e] :
        f \in LogFormats, e \in BOOLEAN }

InitLogging ==
    /\ config \in LoggingConfigs
    /\ InitProcess
    /\ InitPure
    /\ NoThreads

NextLogging ==
    \/ \E c \in InitCalls, caught \in BOOLEAN :
          InitMonitoring(c.args, c.env, caught)
    \/ \E c \in InitCalls, outcome \in FuncOutcomes, caught \in BOOLEAN :
          CallDecorated(c.args, c.env, outcome, caught)
    \/ \E level \in UserLevels, message \in UserMessages, via \in 0..Len(monitors) :
          Log(level, message, via)
    \/ \E message \in ScriptExcs : RaiseUncaught(message)
    \/ ExitNormally
    \/ \E up \in UploadOutcomes, outs \in SendPlans : ExceptHook(up, outs)
    \/ \E up \in UploadOutcomes, outs \in SendPlans : ExitHook(up, outs)
    \/ Finish

SpecLogging == InitLogging /\ [][NextLogging]_vars

\* ------------------------------------------------- the Redactor on its own
InitRedact ==
    /\ config = DefaultConfig
    /\ InitProcess
    /\ redactor \in Redactors
    /\ rin \in { [kind |-> "text", text |-> t] : t \in Texts }
                \cup { [kind |-> "dict", data |-> d] : d \in Dicts }
    /\ rout = << >>
    /\ layers = << >>
    /\ merged = << >>
    /\ NoBuild
    /\ NoThreads

\* the last output, or the input when the redactor has not been applied yet
Latest(first) == IF rout = << >> THEN first ELSE rout[Len(rout)]

\* result = redactor.redact(text)
RedactText ==
    /\ rin.kind = "text"
    /\ Len(rout) < MaxApply
    /\ rout' = Append(rout, redact(redactor, Latest(rin.text)))
    /\ UNCHANGED << redactor, rin, layers, merged, passed, effective, thr, life >>

\* result = redactor.redact_dict(data)
RedactDict ==
    /\ rin.kind = "dict"
    /\ Len(rout) < MaxApply
    /\ rout' = Append(rout, redact_dict(redactor, Latest(rin.data)))
    /\ UNCHANGED << redactor, rin, layers, merged, passed, effective, thr, life >>

NextRedact == RedactText \/ RedactDict

SpecRedact == InitRedact /\ [][NextRedact]_vars

\* --------------------------------------------- merge_configs on its own
InitConfig ==
    /\ config = DefaultConfig
    /\ InitProcess
    /\ redactor = [enabled |-> TRUE, patterns |-> << >>, replacement |-> << >>]
    /\ rin = [kind |-> "none"]
    /\ rout = << >>
    /\ layers \in { << f, e, a >> : f \in FileLayers, e \in CodeLayers("env"),
                                     a \in CodeLayers("args") }
    /\ merged = << >>
    /\ NoBuild
    /\ NoThreads

\* build_config: merged = merge_configs(file_config, env_config, args_config)
MergeConfigs ==
    /\ merged = << >>
    /\ merged' = << merge_configs(layers) >>
    /\ UNCHANGED << redactor, rin, rout, layers, passed, effective, thr, life >>

NextConfig == MergeConfigs

SpecConfig == InitConfig /\ [][NextConfig]_vars

\* ------------------------------------- build_config behind init_monitoring
\* The settings that init_monitoring takes as parameters with a default and
\* that the environment or the config file can also give: tags and log_dir
\* at the top level, notify_on_success in the notification section.  A value
\* is tagged with where it comes from: "file", "env", "args" for what the
\* caller passes, "default" for a parameter default or a field default.
TopSettings == {"tags", "log_dir"}
NotificationSettings == {"notify_on_success"}
Settings == TopSettings \cup NotificationSettings

\* what load_config_from_file / load_config_from_env can return over these
\* settings: any of the top-level ones, and no notification section, an
\* empty one (in the file) or one with notify_on_success
LowerLayers(l) ==
    LET tops == { [k \in K |-> Scalar(l)] : K \in SUBSET TopSettings }
        sections == { Section([k \in N |-> l]) : N \in SUBSET NotificationSettings }
    IN  tops \cup { t @@ (SectionKey :> sec) : t \in tops, sec \in sections }

\* init_monitoring(app_name, owner, recipients=None, tags=None,
\* notify_on_success=False, log_dir="logs", ..): the values of its parameters
Parameters(given) ==
    [ tags |-> IF "tags" \in given THEN "args" ELSE NoneVal,
      notify_on_success |-> IF "notify_on_success" \in given THEN "args" ELSE "default",
      log_dir |-> IF "log_dir" \in given THEN "args" ELSE "default" ]

\* init_monitoring: build_config(.., tags=tags or [], notify_on_success=
\* notify_on_success, .., log_dir=log_dir, **kwargs); the [] is a default
Forwarded(p) == [p EXCEPT !.tags = IF @ = NoneVal THEN "default" ELSE @]

\* build_config: args_config.  tags goes in when it is not None, the
\* notification section always holds notify_on_success, and log_dir arrives
\* among the kwargs, which go in at the top level when they are not None
args_config(p) ==
    LET tags == IF p.tags # NoneVal THEN ("tags" :> Scalar(p.tags)) ELSE << >>
        notification == (SectionKey :> Section(("notify_on_success" :> p.notify_on_success)))
        kwargs == IF p.log_dir # NoneVal THEN ("log_dir" :> Scalar(p.log_dir)) ELSE << >>
    IN  tags @@ notification @@ kwargs

\* MonitorConfig(**merged): a setting that merged does not hold gets the
\* default of its field
MonitorConfig(m) ==
    [ s \in Settings |->
        IF s \in TopSettings
        THEN IF s \in DOMAIN m THEN m[s].v ELSE "default"
        ELSE IF SectionKey \in DOMAIN m /\ m[SectionKey].dict /\ s \in DOMAIN m[SectionKey].items
             THEN m[SectionKey].items[s]
             ELSE "default" ]

\* config.build_config as init_monitoring calls it
build_config(file_config, env_config, given) ==
    MonitorConfig(merge_configs(<< file_config, env_config,
                                   args_config(Forwarded(Parameters(given))) >>))

InitBuild ==
    /\ config = DefaultConfig
    /\ InitProcess
    /\ redactor = [enabled |-> TRUE, patterns |-> << >>, replacement |-> << >>]
    /\ rin = [kind |-> "none"]
    /\ rout = << >>
    /\ layers \in { << f, e >> : f \in LowerLayers("file"), e \in LowerLayers("env") }
    /\ merged = << >>
    /\ passed \in SUBSET Settings
    /\ effective = << >>
    /\ NoThreads

\* config = build_config(..) in init_monitoring
BuildConfig ==
    /\ effective = << >>
    /\ effective' = << build_config(layers[1], layers[2], passed) >>
    /\ UNCHANGED << redactor, rin, rout, layers, merged, passed, thr, life >>

NextBuild == BuildConfig

SpecBuild == InitBuild /\ [][NextBuild]_vars

\* ------------------------------------------ notifications switched off
\* The same process with notification.enabled = False, under every routing
\* policy and every set of configured channels.
DisabledConfigs ==
    { [DefaultConfig EXCEPT !.notification_enabled = FALSE,
                            !.notify_on_success = s, !.notify_on_failure = f,
                            !.smtp = m, !.webhook = w] :
        s \in BOOLEAN, f \in BOOLEAN, m \in BOOLEAN, w \in BOOLEAN }

InitDisabled ==
    /\ config \in DisabledConfigs
    /\ InitProcess
    /\ InitPure
    /\ NoThreads

SpecDisabled == InitDisabled /\ [][Next]_vars

\* ------------------------------------------- the identity of the runs
\* The same process under the default settings and either log format, the
\* script passing run_id and trace_id to init_monitoring or leaving them out;
\* a script that names its runs gives each run a name of its own.
IdentityConfigs == { [DefaultConfig EXCEPT !.log_format = f] : f \in LogFormats }

IdentityArgs ==
    { [ValidArgs EXCEPT !.run_id = r, !.trace_id = t] : r \in RunIds, t \in TraceIds }

\* no earlier run of the process was given this run_id
OwnName(args) == \A m \in DOMAIN monitors : monitors[m].run_id # args.run_id

InitIdentity ==
    /\ config \in IdentityConfigs
    /\ InitProcess
    /\ InitPure
    /\ NoThreads

NextIdentity ==
    \/ \E args \in IdentityArgs :
          OwnName(args) /\ InitMonitoring(args, "ok", FALSE)
    \/ \E args \in IdentityArgs, outcome \in FuncOutcomes, caught \in BOOLEAN :
          OwnName(args) /\ CallDecorated(args, "ok", outcome, caught)
    \/ \E level \in UserLevels : Log(level, PlainMessage, CurrentLogger)
    \/ \E message \in ScriptExcs : RaiseUncaught(message)
    \/ ExitNormally
    \/ \E up \in UploadOutcomes, outs \in SendPlans : ExceptHook(up, outs)
    \/ \E up \in UploadOutcomes, outs \in SendPlans : ExitHook(up, outs)
    \/ Finish

SpecIdentity == InitIdentity /\ [][NextIdentity]_vars

\* ------------------------------------- threads logging through the logger
\* Threads of the script log through the logger init_monitoring returned.
\* Logger.callHandlers passes a record to the root logger's handlers in the
\* order setup_logging added them; Handler.handle takes the handler's lock,
\* emits and releases.  StreamHandler.emit hands the formatted line to the
\* stream and flushes it; the stream takes the line in two pieces, so that
\* an append is atomic only if the lock makes it so.

\* threads that log, and the records each of them logs
NumThreads == 2
ThreadLogs == 1

Threads == 1..NumThreads

\* positions in the root logger's handler list: file handler, console handler
Sinks == 1..2

InitThreads ==
    /\ config = DefaultConfig
    /\ InitProcess
    /\ InitPure
    /\ tstate = [t \in Threads |-> [n |-> 1, h |-> 1, at |-> "call", dropped |-> {}]]
    /\ sinkLock = [h \in Sinks |-> 0]
    /\ sinkOut = [h \in Sinks |-> << >>]

\* Handler.acquire blocks while another thread holds the handler's lock
LockFree_unlocked(h) == TRUE

LockFree(h) == sinkLock[h] = 0

\* the piece of a line a thread hands to a stream
Piece(t, part) == [thread |-> t, n |-> tstate[t].n, part |-> part]

\* logger.debug(..) under a root level above DEBUG: Logger.isEnabledFor
\* fails and the record reaches no handler
Filtered(t) ==
    /\ tstate[t].at = "call"
    /\ tstate[t].h = 1
    /\ tstate[t].n <= ThreadLogs
    /\ rootHandlers # << >>
    /\ LevelNo["DEBUG"] < LevelNo[rootLevel]
    /\ tstate' = [tstate EXCEPT ![t].n = @ + 1, ![t].dropped = @ \cup {tstate[t].n}]
    /\ UNCHANGED << pure, life, sinkLock, sinkOut >>

\* logger.info(..), Handler.handle: self.acquire()
Acquire(t) ==
    /\ tstate[t].at = "call"
    /\ tstate[t].n <= ThreadLogs
    /\ tstate[t].h <= Len(rootHandlers)
    /\ LevelNo["INFO"] >= LevelNo[rootLevel]
    /\ LockFree(tstate[t].h)
    /\ sinkLock' = [sinkLock EXCEPT ![tstate[t].h] = t]
    /\ tstate' = [tstate EXCEPT ![t].at = "acquired"]
    /\ UNCHANGED << pure, life, sinkOut >>

\* StreamHandler.emit: stream.write(msg + self.terminator), first piece
Write(t) ==
    /\ tstate[t].at = "acquired"
    /\ sinkOut' = [sinkOut EXCEPT ![tstate[t].h] = Append(@, Piece(t, "text"))]
    /\ tstate' = [tstate EXCEPT ![t].at = "writing"]
    /\ UNCHANGED << pure, life, sinkLock >>

\* StreamHandler.emit: the rest of the line, up to self.flush()
Flush(t) ==
    /\ tstate[t].at = "writing"
    /\ sinkOut' = [sinkOut EXCEPT ![tstate[t].h] = Append(@, Piece(t, "terminator"))]
    /\ tstate' = [tstate EXCEPT ![t].at = "written"]
    /\ UNCHANGED << pure, life, sinkLock >>

\* Handler.handle: finally self.release(); callHandlers goes on to the next
\* handler, and after the last one the logging call returns
Release(t) ==
    /\ tstate[t].at = "written"
    /\ sinkLock' = [sinkLock EXCEPT ![tstate[t].h] = 0]
    /\ tstate' = [tstate EXCEPT ![t] =
                    IF @.h < Len(rootHandlers)
                    THEN [@ EXCEPT !.h = @ + 1, !.at = "call"]
                    ELSE [@ EXCEPT !.n = @ + 1, !.h = 1, !.at = "call"]]
    /\ UNCHANGED << pure, life, sinkOut >>

NextThreads ==
    \/ monitors = << >> /\ InitMonitoring(ValidArgs, "ok", FALSE)
    \/ \E t \in Threads : Filtered(t)
    \/ \E t \in Threads : Acquire(t)
    \/ \E t \in Threads : Write(t)
    \/ \E t \in Threads : Flush(t)
    \/ \E t \in Threads : Release(t)

SpecThreads == InitThreads /\ [][NextThreads]_vars

\* ------------------------------------------------------------ properties
\* summaries create_summary has returned for monitor m
Created(m) == Len(SelectSeq(creates, LAMBDA c : c.mon = m /\ c.summary # << >>))

\* the process made one monitored run: one init_monitoring call built a
\* MonitorState and ran to its end, registering the hooks
SingleRun == Len(monitors) = 1 /\ atexitRegs = 1

\* the channels a dispatch attempted, in order
Channels(attempts) == [i \in DOMAIN attempts |-> attempts[i].channel]

\* sends attempted on channel ch over the whole process
RECURSIVE SendsOn(_, _)
SendsOn(ch, ds) ==
    IF ds = << >> THEN 0
    ELSE Len(SelectSeq(Head(ds).attempts, LAMBDA a : a.channel = ch)) + SendsOn(ch, Tail(ds))

\* C1: when the process of a single monitored run has exited, exactly one
\* ExecutionSummary has been created for the run and the monitor holds it,
\* whether the exception hook ran before the exit hook or the exit hook ran alone.
C1_ExactlyOneSummary ==
    (pc = "exited" /\ SingleRun) => (Created(1) = 1 /\ monitors[1].summary # << >>)

\* the run ended through the exception hook followed by the exit hook
C1_Witness ==
    /\ pc = "exited" /\ SingleRun
    /\ pending # NoneVal /\ excepthook = "handler"
    /\ Created(1) = 1

\* C2: for every monitor, in every order in which the interpreter fires the
\* exception hook and the exit hooks, a summary is created at most once, and
\* a summary the monitor holds is never replaced by a later step.  (Each hook
\* runs to its end on the main thread before the next one starts, so the
\* check of "summary is None" and the creation cannot be separated.)
C2_CreatedAtMostOnce ==
    /\ [](\A m \in DOMAIN monitors : Created(m) <= 1)
    /\ [][\A m \in DOMAIN monitors :
            monitors[m].summary # << >> => monitors'[m].summary = monitors[m].summary]_vars

\* the exit hook has run, from two stacked registrations, after the exception
\* hook created the summary
C2_Witness ==
    /\ pc = "exited" /\ atexitRegs = 2
    /\ pending # NoneVal
    /\ Created(monitor_state) = 1

\* C3: when the process of a single monitored run has exited,
\* send_notifications has been invoked exactly once, with the summary the
\* monitor holds, and no channel has been sent to more than once.
C3_OneDispatch ==
    (pc = "exited" /\ SingleRun) =>
        /\ Len(dispatches) = 1
        /\ dispatches[1].mon = 1
        /\ << dispatches[1].summary >> = monitors[1].summary
        /\ \A ch \in {"smtp", "webhook"} : SendsOn(ch, dispatches) <= 1

\* a run with notify_on_success that exits normally: one dispatch, with sends
C3_Witness ==
    /\ pc = "exited" /\ SingleRun
    /\ config.notify_on_success /\ pending = NoneVal
    /\ Len(dispatches) = 1
    /\ dispatches[1].summary.success
    /\ dispatches[1].attempts # << >>

\* C4: a dispatch sends on channels only if the flag for its outcome is set
\* (notify_on_success for a successful summary, notify_on_failure otherwise);
\* with notify_on_success off and notify_on_failure on, a successful run sends
\* nothing and a failing run attempts every configured channel.
C4_RoutingPolicy ==
    \A i \in DOMAIN dispatches :
        LET d == dispatches[i]
        IN  /\ d.attempts # << >> =>
                 IF d.summary.success THEN config.notify_on_success ELSE config.notify_on_failure
            /\ (~config.notify_on_success /\ config.notify_on_failure) =>
                 IF d.summary.success
                 THEN d.attempts = << >>
                 ELSE Channels(d.attempts) = create_notifiers(config)

\* a failing run under notify_on_success=False, notify_on_failure=True has
\* attempted both configured channels
C4_Witness ==
    /\ ~config.notify_on_success /\ config.notify_on_failure
    /\ \E i \in DOMAIN dispatches :
          ~dispatches[i].summary.success /\ Len(dispatches[i].attempts) = 2

\* the other half of the policy: a successful run under the same flags, with
\* channels configured, has dispatched and sent nothing
C4_WitnessSuccess ==
    /\ ~config.notify_on_success /\ config.notify_on_failure
    /\ config.smtp /\ config.webhook
    /\ \E i \in DOMAIN dispatches :
          dispatches[i].summary.success /\ dispatches[i].attempts = << >>

\* C5: whenever a dispatch is due, every configured channel is attempted, in
\* the order of the notifier list, whatever the earlier sends did, and no
\* exception escapes the hook.
C5_ChannelIsolation ==
    /\ ~escaped
    /\ \A i \in DOMAIN dispatches :
          LET d == dispatches[i]
              due == IF d.summary.success THEN config.notify_on_success
                     ELSE config.notify_on_failure
          IN  due => Channels(d.attempts) = create_notifiers(config)

\* the first channel's send raised and the second channel was still attempted
C5_Witness ==
    \E i \in DOMAIN dispatches :
        /\ Len(dispatches[i].attempts) = 2
        /\ dispatches[i].attempts[1].outcome = "raise"
        /\ dispatches[i].attempts[2].channel = "webhook"

\* C6: each create_summary call makes one upload attempt if storage is
\* enabled and the log file is strictly larger than upload_threshold_kb
\* kilobytes, and none otherwise.
C6_UploadIffAboveThreshold ==
    \A i \in DOMAIN creates :
        creates[i].uploads =
            IF config.storage_enabled /\ creates[i].bytes > config.upload_threshold_kb * KB
            THEN 1 ELSE 0

\* storage is enabled and the log file is exactly at the threshold: no upload
C6_Witness ==
    /\ config.storage_enabled
    /\ \E i \in DOMAIN creates :
          creates[i].bytes = config.upload_threshold_kb * KB /\ creates[i].uploads = 0

\* storage is enabled and the log file is above the threshold: one upload
C6_WitnessAbove ==
    /\ config.storage_enabled
    /\ \E i \in DOMAIN creates :
          creates[i].bytes > config.upload_threshold_kb * KB /\ creates[i].uploads = 1

\* C7: when the upload raises or returns None, create_summary still returns
\* a summary, with log_url None, the monitor holds it, it is dispatched
\* according to the routing policy, and no exception escapes the hook.
C7_UploadFailureTolerated ==
    /\ ~escaped
    /\ \A i \in DOMAIN creates :
          LET c == creates[i]
          IN  c.upload \in {"none", "raise"} =>
                /\ c.summary # << >>
                /\ c.summary[1].log_url = NoneVal
                /\ monitors[c.mon].summary = c.summary
                /\ \E j \in DOMAIN dispatches :
                      /\ dispatches[j].mon = c.mon
                      /\ << dispatches[j].summary >> = c.summary
                      /\ Channels(dispatches[j].attempts) =
                            IF (IF c.summary[1].success THEN config.notify_on_success
                                ELSE config.notify_on_failure)
                            THEN create_notifiers(config) ELSE << >>

\* the backend raised during the upload and the summary was sent on a channel
C7_Witness ==
    \E i \in DOMAIN creates :
        /\ creates[i].upload = "raise"
        /\ \E j \in DOMAIN dispatches :
              << dispatches[j].summary >> = creates[i].summary /\ dispatches[j].attempts # << >>

\* C8: when the decorated function of a single monitored run has raised, the
\* summary the run ends with has success False and the exception's message as
\* error_message, also when the caller caught the exception.
C8_SummaryRecordsFailure ==
    (pc = "exited" /\ SingleRun /\ call.kind = "raise") =>
        /\ monitors[1].summary # << >>
        /\ ~monitors[1].summary[1].success
        /\ monitors[1].summary[1].error_message = call.value

\* C9: when the decorated function of a single monitored run has raised, the
\* run's log file holds a record that carries the exception's message.
C9_LogCarriesMessage ==
    (pc = "exited" /\ SingleRun /\ call.kind = "raise") =>
        \E j \in DOMAIN files[1] : files[1][j].exc = call.value

\* C10: the caller of a decorated function gets what the function did: the
\* same exception when it raised, the same value when it returned.
C10_OutcomePassedThrough ==
    call.seen_kind = call.kind /\ call.seen_value = call.value

\* a decorated function raised and its caller caught that exception
C10_Witness ==
    /\ call.kind = "raise" /\ call.seen_kind = "raise" /\ call.seen_value \in FuncExcs
    /\ pc = "main"

\* a decorated function returned a value to its caller
C10_WitnessReturn ==
    call.kind = "return" /\ call.seen_value \in FuncValues

\* C11: a call of init_monitoring that leaves out owner or app_name, or
\* passes an invalid owner, recipient, log level or storage backend, raises
\* with nothing installed: the step that raises leaves sys.excepthook, the
\* atexit registrations, _monitor_state and the monitors as they were, and
\* no monitor is ever built from such settings.
C11_FailFastInit ==
    /\ [](\A m \in DOMAIN monitors :
            LET a == monitors[m].args
            IN  /\ a.app_name # Missing
                /\ a.owner \in Emails
                /\ \A i \in DOMAIN a.recipients : a.recipients[i] \in Emails
                /\ a.log_level \in LogLevels \cup {NoneVal}
                /\ a.storage_backend \in StorageBackends)
    /\ [][(pending' = ConfigError /\ pending # ConfigError) =>
            UNCHANGED << excepthook, atexitRegs, monitor_state, monitors, rootHandlers, files >>]_vars

\* the first init_monitoring call of the process raised on its settings and
\* nobody caught it: no hook is installed, no monitor exists
C11_Witness ==
    /\ pending = ConfigError /\ pc = "unwinding"
    /\ excepthook = "default" /\ atexitRegs = 0 /\ monitor_state = 0 /\ monitors = << >>

\* s occurs in t as a substring
Contains(t, s) == \E i \in 1..(Len(t) - Len(s) + 1) : SubSeq(t, i, i + Len(s) - 1) = s

\* the substring of t that pattern p matches at position i
Matched(p, t, i) == SubSeq(t, i, i + Len(p.lit) - 1)

\* the symbols of a text
SymbolsOf(t) == { t[i] : i \in DOMAIN t }

ReplacementInert(cfg) ==
    \A k \in DOMAIN cfg.patterns :
        /\ ~cfg.patterns[k].wb
        /\ { Lower(c) : c \in SymbolsOf(cfg.patterns[k].lit) }
              \cap { Lower(c) : c \in SymbolsOf(cfg.replacement) } = {}

RECURSIVE DeepRedact(_, _)
\* the value v with every string leaf, at any depth, replaced by its redacted
\* form and everything else as it is
DeepRedact(cfg, v) ==
    IF v.t = "str" THEN Str(redact(cfg, v.s))
    ELSE IF v.t = "list" THEN List([i \in DOMAIN v.items |-> DeepRedact(cfg, v.items[i])])
    ELSE IF v.t = "dict"
         THEN Dict([i \in DOMAIN v.entries |->
                      Item(v.entries[i].key, DeepRedact(cfg, v.entries[i].value))])
    ELSE v

\* C15: an enabled redact_dict, given a dictionary nested to any depth
\* through dictionaries and lists, returns it with every string leaf redacted
\* and with the other leaves, the keys and the shape unchanged.
C15_EveryStringLeaf ==
    (rin.kind = "dict" /\ redactor.enabled /\ rout # << >>) =>
        rout[1] = DeepRedact(redactor, rin.data)

\* what the redactor was given
Input == IF rin.kind = "text" THEN rin.text ELSE rin.data

\* C16: a disabled Redactor returns what it is given: redact(x) = x for
\* every text and redact_dict(d) = d for every dictionary.
C16_DisabledIsIdentity ==
    (rin.kind \in {"text", "dict"} /\ ~redactor.enabled) =>
        \A i \in DOMAIN rout : rout[i] = Input

\* a disabled redact has returned a text in which a configured pattern matches
C16_Witness ==
    /\ rin.kind = "text" /\ ~redactor.enabled /\ rout # << >>
    /\ \E i \in DOMAIN rin.text : MatchAt(redactor.patterns[1], rin.text, i)
    /\ rout[1] = rin.text

\* a disabled redact_dict has returned a dictionary that holds a string, in
\* a list, in which a configured pattern matches
C16_WitnessDict ==
    /\ rin.kind = "dict" /\ ~redactor.enabled /\ rout # << >>
    /\ rin.data.entries[1].value.t = "list"
    /\ rin.data.entries[1].value.items[1] = Str(<< "a" >>)
    /\ rout[1] = rin.data

RECURSIVE Console(_)
\* what the console handler has written to sys.stdout: setup_logging gives
\* it the level of the root logger and the formatter of the file handler and
\* installs the two together, so it writes the lines of the log files, in order
Console(fs) == IF fs = << >> THEN << >> ELSE Head(fs) \o Console(Tail(fs))

\* a configured pattern of the monitor's redactor matches in the line
Unredacted(line) ==
    \E k \in DOMAIN LogRedaction(config).patterns, i \in DOMAIN line.text :
        MatchAt(LogRedaction(config).patterns[k], line.text, i)

\* C12: with redaction enabled, whatever the log format, every line written
\* to a log file or to the console has passed through the redactor: no line
\* in either sink contains a match of a configured pattern.
C12_SinksRedacted ==
    config.redaction_enabled =>
        /\ \A m \in DOMAIN files : \A j \in DOMAIN files[m] : ~Unredacted(files[m][j])
        /\ \A j \in DOMAIN Console(files) : ~Unredacted(Console(files)[j])

\* the monitors whose init_monitoring call ran to its end
Started == { m \in DOMAIN monitors : monitors[m].started }

\* C17: after any number of successful init_monitoring calls in the process,
\* one exception hook is installed and one exit hook is registered.
C17_HookSingletons ==
    Started # {} => (excepthook = "handler" /\ atexitRegs = 1)

\* C18: when the process has exited, every run that an init_monitoring call
\* started has had exactly one summary created for it.
C18_EveryRunSummarised ==
    pc = "exited" => \A m \in Started : Created(m) = 1 /\ monitors[m].summary # << >>

\* C19: a record the script logs through the logger that init_monitoring
\* returned for a monitor is written to the log file of that monitor and to
\* no other.
C19_LoggersIndependent ==
    \A m \in DOMAIN files : \A j \in DOMAIN files[m] :
        (files[m][j].src = "user" /\ files[m][j].logger # 0) => files[m][j].logger = m

\* the layers that define top-level key k, lowest first
Defining(k) == { i \in DOMAIN layers : k \in DOMAIN layers[i] }
\* the layers that define key nk of the section at k
DefiningNested(k, nk) ==
    { i \in Defining(k) : layers[i][k].dict /\ nk \in DOMAIN layers[i][k].items }
\* the highest of a non-empty set of layers
Highest(S) == CHOOSE i \in S : \A j \in S : j <= i

\* C20: in the dictionary merged from the file, environment and argument
\* layers, a top-level key is present iff some layer defines it, a plain
\* top-level value is that of the highest layer defining the key, and each key
\* of a section has the value of the highest layer that defines it in that
\* section, also when only a lower layer does.
C20_Precedence ==
    merged # << >> =>
        LET r == merged[1]
        IN  /\ \A k \in {ScalarKey, SectionKey} :
                  /\ k \in DOMAIN r <=> Defining(k) # {}
                  /\ (Defining(k) # {} /\ ~layers[Highest(Defining(k))][k].dict) =>
                        r[k] = layers[Highest(Defining(k))][k]
            /\ \A nk \in NestedKeys :
                  DefiningNested(SectionKey, nk) # {} =>
                      /\ r[SectionKey].dict
                      /\ nk \in DOMAIN r[SectionKey].items
                      /\ r[SectionKey].items[nk] =
                            layers[Highest(DefiningNested(SectionKey, nk))][SectionKey].items[nk]

\* the file layer alone defines smtp_host, the environment overrides the
\* file's smtp_port, the arguments define the section without either key, and
\* the merged section holds the file's smtp_host and the environment's smtp_port
C20_Witness ==
    /\ merged # << >>
    /\ DefiningNested(SectionKey, "smtp_host") = {1}
    /\ DefiningNested(SectionKey, "smtp_port") = {1, 2}
    /\ Defining(SectionKey) = {1, 2, 3}
    /\ merged[1][SectionKey].items["smtp_host"] = "file"
    /\ merged[1][SectionKey].items["smtp_port"] = "env"

\* ---- C21
\* thread t's n-th logging call has returned from handler h
Handled(t, n, h) ==
    \/ tstate[t].n > n
    \/ tstate[t].n = n /\ tstate[t].h > h

\* the positions of sink h's stream at which record n of thread t starts
Starts(h, t, n) ==
    { i \in 1..Len(sinkOut[h]) : sinkOut[h][i] = [thread |-> t, n |-> n, part |-> "text"] }

\* C21: when several threads log concurrently through the configured logger,
\* each sink takes each record as one atomic append: in every sink's stream
\* the text of a record is followed at once by its own terminator and every
\* terminator follows its own text, so records of different threads never
\* interleave inside one line; and a record at or above the logger's level
\* whose logging call has passed a sink is in that sink exactly once, never
\* more than once before, while a record below the level is in no sink.
C21_AtomicAppends ==
    \A h \in Sinks :
        /\ \A i \in 1..Len(sinkOut[h]) :
              IF sinkOut[h][i].part = "text"
              THEN i < Len(sinkOut[h]) =>
                      sinkOut[h][i + 1] = [sinkOut[h][i] EXCEPT !.part = "terminator"]
              ELSE i > 1 /\ sinkOut[h][i - 1] = [sinkOut[h][i] EXCEPT !.part = "text"]
        /\ \A t \in Threads, n \in 1..ThreadLogs :
              /\ Cardinality(Starts(h, t, n)) <= 1
              /\ Handled(t, n, h) /\ n \notin tstate[t].dropped =>
                    Cardinality(Starts(h, t, n)) = 1
              /\ n \in tstate[t].dropped => Starts(h, t, n) = {}

\* every thread has logged all its records, and the two sinks took the
\* records of two threads in different orders
C21_Witness ==
    /\ \A t \in Threads : tstate[t].n > ThreadLogs /\ tstate[t].dropped = {}
    /\ sinkOut[1][1].thread = 2
    /\ sinkOut[2][1].thread = 1

\* ---- C22
\* the caller gave this identifier (None and "" are what init_monitoring
\* takes for "not given")
Given(id) == id \notin {NoneVal, ""}

\* C22: run identity is fixed at initialization.  The run_id and trace_id of
\* a run are the ones the caller gave, and otherwise generated ones, which no
\* other run of the process has; the log file of the run is
\* {log_dir}/{app_name}/{run_id}.log; every structured (JSON) record in that
\* file carries that run_id, and so does every summary created for the run,
\* whenever in the run they were written.
C22_RunIdentity ==
    \A m \in DOMAIN monitors :
        LET run == monitors[m]
        IN  /\ Given(run.args.run_id) => run.run_id = run.args.run_id
            /\ Given(run.args.trace_id) => run.trace_id = run.args.trace_id
            /\ Given(run.run_id) /\ Given(run.trace_id)
            /\ \A o \in DOMAIN monitors \ {m} : monitors[o].run_id # run.run_id
            /\ run.log_path = << "logs", run.args.app_name, run.run_id \o ".log" >>
            /\ config.log_format = "json" =>
                  \A j \in DOMAIN files[run.log_file] :
                      files[run.log_file][j].run_id = run.run_id
            /\ \A i \in DOMAIN creates :
                  creates[i].mon = m /\ creates[i].summary # << >> =>
                      creates[i].summary[1].run_id = run.run_id
            /\ run.summary # << >> => run.summary[1].run_id = run.run_id

\* ---- C23
\* the records in log file f that the script logged
CallerRecords(f) == Len(SelectSeq(f, LAMBDA r : r.src = "user"))

\* the summaries the normal-exit hook created in a process of one run
NormalSummaries ==
    { i \in DOMAIN creates : /\ SingleRun
                             /\ creates[i].summary # << >>
                             /\ creates[i].summary[1].exit_code = 0 }

\* C23 as stated: in a run where the caller logs N records at or above the
\* configured level and then exits normally, the run's log file holds
\* exactly N entries when the summary is created, the monitor having added
\* none of its own.
C23_OnlyCallerRecords ==
    \A i \in NormalSummaries :
        creates[i].bytes = RecBytes * CallerRecords(files[creates[i].mon])

\* the records init_monitoring itself writes under a configured level
InitEntries(level) == IF LevelNo["INFO"] >= LevelNo[level] THEN 1 ELSE 0

\* C23, amended: when the summary of such a run is created its log file holds
\* the caller's N records and, if the configured level is INFO or lower, one
\* more: the "Monitoring initialized" record of init_monitoring.
C23_CallerRecordsAndInit ==
    \A i \in NormalSummaries :
        creates[i].bytes =
            RecBytes * (CallerRecords(files[creates[i].mon]) + InitEntries(config.log_level))

\* a run at level INFO logged two records and exited normally, and its
\* summary was created over a file of three
C23_Witness ==
    /\ pc = "exited"
    /\ config.log_level = "INFO"
    /\ NormalSummaries # {}
    /\ CallerRecords(files[1]) = 2
    /\ creates[1].bytes = 3 * RecBytes

\* ---- C24
\* C24: summary fields follow the terminating path.  A summary built by the
\* uncaught-exception hook has exit_code 1, the exception's message as
\* error_message, a stacktrace and success False; a summary built by the
\* normal-exit hook has exit_code 0, no error_message, no stacktrace and
\* success True; and in every summary success holds iff exit_code is 0 and
\* there is no error_message.
C24_FieldsFollowPath ==
    \A i \in DOMAIN creates :
        creates[i].summary # << >> =>
            LET summary == creates[i].summary[1]
            IN  /\ creates[i].hook = "excepthook" =>
                      /\ summary.exit_code = 1
                      /\ summary.error_message = pending /\ pending # NoneVal
                      /\ summary.stacktrace # NoneVal
                      /\ ~summary.success
                /\ creates[i].hook = "atexit" =>
                      /\ summary.exit_code = 0
                      /\ summary.error_message = NoneVal
                      /\ summary.stacktrace = NoneVal
                      /\ summary.success
                /\ summary.success <=> (summary.exit_code = 0 /\ summary.error_message = NoneVal)

\* the exception hook has built the summary of a run that an uncaught
\* exception ended, and the monitor holds it
C24_Witness ==
    /\ pc = "exited"
    /\ monitor_state # 0
    /\ monitors[monitor_state].summary # << >>
    /\ \E i \in DOMAIN creates :
          /\ creates[i].hook = "excepthook"
          /\ creates[i].summary = monitors[monitor_state].summary

\* ---- C25
\* C25: finalization order.  Within one terminal hook the upload attempt, if
\* there is one, comes before the summary is stored, and the summary is
\* stored before any channel send starts; the summary handed to the channels
\* is the one the monitor holds, and it carries the log_url the upload
\* returned.
C25_FinalizationOrder ==
    /\ \A i \in DOMAIN creates :
          LET order == creates[i].order
          IN  \A a, b \in DOMAIN order :
                  /\ order[a] = "upload" /\ order[b] = "store" => a < b
                  /\ order[a] = "upload" /\ order[b] = "send" => a < b
                  /\ order[a] = "store" /\ order[b] = "send" => a < b
                  /\ order[a] = "send" => \E c \in DOMAIN order : order[c] = "store"
    /\ \A j \in DOMAIN dispatches :
          /\ monitors[dispatches[j].mon].summary = << dispatches[j].summary >>
          /\ \A i \in DOMAIN creates :
                creates[i].mon = dispatches[j].mon /\ creates[i].summary # << >> =>
                    dispatches[j].summary.log_url =
                        (IF creates[i].upload = "url" THEN "url" ELSE NoneVal)

\* a hook uploaded the log file, stored the summary and sent it through two
\* channels, the summary carrying the URL of the upload
C25_Witness ==
    \E j \in DOMAIN dispatches :
        /\ Len(dispatches[j].attempts) = 2
        /\ dispatches[j].summary.log_url = "url"
        /\ \E i \in DOMAIN creates :
              creates[i].order = << "upload", "store", "send", "send" >>

\* ---- C26
\* C26: the normal-exit hook is a no-op once a summary exists.  A run of the
\* hook that finds the current monitor holding a summary, whether the
\* exception hook or an earlier run of the exit hook stored it, uploads
\* nothing, creates no summary, sends nothing and writes no log record.
C26_ExitHookNoOp ==
    [][ ( /\ pc = "atexit" /\ atexitLeft' = atexitLeft - 1
          /\ monitor_state # 0
          /\ monitors[monitor_state].summary # << >> )
        => UNCHANGED << monitors, files, creates, dispatches, escaped >> ]_vars

\* two stacked registrations of the exit hook have run after a normal exit:
\* the first created the summary and the second found it
C26_Witness ==
    /\ pc = "exited"
    /\ pending = NoneVal
    /\ atexitRegs = 2
    /\ Len(creates) = 1
    /\ creates[1].hook = "atexit"
    /\ creates[1].summary # << >>
    /\ monitors[creates[1].mon].summary = creates[1].summary

\* ---- C27
\* the root logger has exactly the two handlers of initialization m
HandlersOf(m) ==
    /\ Len(rootHandlers) = 2
    /\ rootHandlers[1].kind = "file" /\ rootHandlers[1].mon = m
    /\ rootHandlers[2].kind = "console" /\ rootHandlers[2].mon = m

\* C27: log handlers do not accumulate.  After any number of init_monitoring
\* calls that reached setup_logging, the root logger has exactly two
\* handlers, one file and one console, both of the most recent of them.
C27_TwoHandlers == monitors # << >> => HandlersOf(Len(monitors))

\* ---- C28
\* C28: when the notification configuration has enabled = False, no channel
\* send is attempted for any run outcome, whatever notify_on_success and
\* notify_on_failure are.
C28_DisabledSendsNothing ==
    ~config.notification_enabled =>
        \A j \in DOMAIN dispatches : dispatches[j].attempts = << >>

\* ---- C29
\* C29: a failed initialization changes nothing process-wide.  A step in
\* which init_monitoring raises, at whatever stage (it leaves an exception
\* behind, or a MonitorState that never started), leaves the current monitor
\* state, the installed uncaught-exception hook, the registered exit hooks
\* and the root logger's handlers as they were before the call.
C29_FailedInitChangesNothing ==
    [][ ( \/ pending = NoneVal /\ pending' \in {ConfigError, InitError("logging")}
          \/ /\ Len(monitors') = Len(monitors) + 1
             /\ ~monitors'[Len(monitors')].started )
        => UNCHANGED << monitor_state, excepthook, atexitRegs, rootHandlers >> ]_vars

\* ---- C30
\* layer l gives setting s
Gives(l, s) ==
    IF s \in TopSettings THEN s \in DOMAIN l
    ELSE SectionKey \in DOMAIN l /\ s \in DOMAIN l[SectionKey].items

\* the lower layer whose value of s counts: the environment before the file,
\* NoneVal when neither gives s
LowerSource(s) ==
    IF Gives(layers[2], s) THEN "env" ELSE IF Gives(layers[1], s) THEN "file" ELSE NoneVal

\* C30: a setting that only the environment or the config file gives is the
\* effective value of the MonitorConfig built by init_monitoring when the
\* caller does not pass that setting: the parameter defaults of
\* init_monitoring never override a lower layer.
C30_DefaultsDoNotOverride ==
    effective # << >> =>
        \A s \in Settings :
            s \notin passed /\ LowerSource(s) # NoneVal => effective[1][s] = LowerSource(s)

====
